---- MODULE Spec2Model ----
(***************************************************************************)
(* A model of the DS2482 I2C-to-1-Wire bus-master driver (class OneWire,   *)
(* OneWire.cpp / OneWire.h).  Every public method of the driver is one     *)
(* action.  The driver's code is translated call by call into operators    *)
(* on a "world" record that holds the driver's members, the Wire transmit  *)
(* buffer, the bridge chip and a trace of the I2C traffic of the call.     *)
(***************************************************************************)
EXTENDS Integers, Sequences, FiniteSets, TLC

VARIABLES
    mError,                 \* uint8_t OneWire::mError
    searchAddress,          \* uint8_t OneWire::searchAddress[8]
    searchLastDiscrepancy,  \* uint8_t OneWire::searchLastDiscrepancy
    searchLastDeviceFlag,   \* uint8_t OneWire::searchLastDeviceFlag
    chip,                   \* the DS2482 bridge at the other end of the I2C bus
    bus,                    \* the ROM addresses of the devices on the 1-Wire line
    fault,                  \* how the 1-Wire line is shorted during a reset cycle
    lat,                    \* status polls a 1-Wire command keeps the chip busy
    op,                     \* the last call: its name and its argument
    ret,                    \* what the last call returned
    address,                \* the caller's buffer handed to the last search()
    log,                    \* I2C writes of the last call, set-read-pointer left out
    nTx,                    \* number of I2C write transactions of the last call
    nRd,                    \* number of I2C reads of the last call
    polled,                 \* for each write in log, the I2C reads of the call before it
    statuses,               \* the status after each triplet of the last call
    busyTx,                 \* the writes in log that the last call sent to a busy chip
    last,                   \* the byte the last I2C read of the call returned
    found,                  \* addresses returned by search() since resetSearch()
    enum,                   \* resetSearch() was called and the bus is as it was then
    calls,                  \* number of calls the caller still makes
    buffer,                 \* the bytes the caller hands to crc8
    events,                 \* the error conditions the driver has met since construction
    frames                  \* per caller, the call it is in the middle of

vars == <<mError, searchAddress, searchLastDiscrepancy, searchLastDeviceFlag,
          chip, bus, fault, lat, op, ret, address, log, nTx, nRd, polled,
          statuses, busyTx, last, found, enum, calls, buffer,
          events, frames>>

(***************************************************************************)
(* Bounds of the model.                                                    *)
(***************************************************************************)
MaxDevices == 3
MaxLatency == 1
MaxCalls == 2

(***************************************************************************)
(* Constants of OneWire.h and OneWire.cpp.                                 *)
(***************************************************************************)
DS2482_COMMAND_RESET == 240
DS2482_COMMAND_SRP == 225
DS2482_POINTER_STATUS == 240
DS2482_POINTER_DATA == 225
DS2482_POINTER_CONFIG == 195
DS2482_COMMAND_WRITECONFIG == 210
DS2482_COMMAND_RESETWIRE == 180
DS2482_COMMAND_WRITEBYTE == 165
DS2482_COMMAND_READBYTE == 150
DS2482_COMMAND_SINGLEBIT == 135
DS2482_COMMAND_TRIPLET == 120
WIRE_COMMAND_SKIP == 204
WIRE_COMMAND_SELECT == 85
WIRE_COMMAND_SEARCH == 240
DS2482_STATUS_BUSY == 1
DS2482_STATUS_PPD == 2
DS2482_STATUS_SD == 4
DS2482_STATUS_SBR == 32
DS2482_STATUS_TSB == 64
DS2482_STATUS_DIR == 128
DS2482_CONFIG_APU == 1
DS2482_CONFIG_SPU == 4
DS2482_CONFIG_1WS == 8
DS2482_ERROR_TIMEOUT == 1
DS2482_ERROR_SHORT == 2
DS2482_ERROR_CONFIG == 4
PollBudget == 1000
RomBits == 64
RomBytes == 8

(***************************************************************************)
(* C integer arithmetic on bytes.                                          *)
(***************************************************************************)
RECURSIVE And(_, _)
And(a, b) ==
    IF a = 0 \/ b = 0 THEN 0
    ELSE (a % 2) * (b % 2) + 2 * And(a \div 2, b \div 2)

RECURSIVE Or(_, _)
Or(a, b) ==
    IF a = 0 THEN b
    ELSE IF b = 0 THEN a
    ELSE (IF a % 2 = 1 \/ b % 2 = 1 THEN 1 ELSE 0) + 2 * Or(a \div 2, b \div 2)

RECURSIVE Pow2(_)
Pow2(n) == IF n = 0 THEN 1 ELSE 2 * Pow2(n - 1)

RECURSIVE Xor(_, _)
Xor(a, b) ==
    IF a = 0 THEN b
    ELSE IF b = 0 THEN a
    ELSE ((a + b) % 2) + 2 * Xor(a \div 2, b \div 2)

\* (uint8_t) x
U8(x) == x % 256
\* ~x on an int holding a promoted uint8_t, as the low 16 bits of the int
NotInt(x) == 65535 - x
\* x << n on the low 16 bits of an int
Shl(x, n) == (x * Pow2(n)) % 65536
\* !x
LNot(x) == IF x = 0 THEN 1 ELSE 0

ZeroAddress == [i \in 0..(RomBytes - 1) |-> 0]
\* bit i (0..63) of an 8-byte ROM address, bit 0 the LSB of byte 0
RomBit(rom, i) == (rom[i \div 8] \div Pow2(i % 8)) % 2

(***************************************************************************)
(* The DS2482 bridge and the 1-Wire line behind it.  The driver sees the   *)
(* chip through I2C writes (ChipWrite) and one-byte reads (ChipRead).      *)
(*   cfg     config register, lower nibble                                 *)
(*   rp      read pointer: the register the next read returns              *)
(*   status  status register without its BUSY bit                          *)
(*   next    the status the command in flight leaves when it completes     *)
(*   busy    status polls the chip stays busy for; Stuck: it never ends    *)
(*   data    read data register                                            *)
(*   mode    what the devices on the line expect next                      *)
(*   active  devices still taking part in the running ROM search           *)
(*   pos     ROM bit the running search is at                              *)
(***************************************************************************)
Stuck == -1

IsBusy(c) == c.busy # 0

\* the chip accepted a 1-Wire command: it is busy for lat polls, then shows st
Started(c, st) ==
    IF lat = 0 THEN [c EXCEPT !.status = st, !.next = st, !.rp = DS2482_POINTER_STATUS]
    ELSE [c EXCEPT !.next = st, !.busy = lat, !.rp = DS2482_POINTER_STATUS]

\* status with the bits of mask replaced by val
WithBits(st, mask, val) == And(st, 255 - mask) + val

\* the reset/presence-detect cycle: PPD and SD as sampled on the line
ResetSample ==
    (IF bus # {} \/ fault = "low" THEN DS2482_STATUS_PPD ELSE 0)
    + (IF fault # "none" THEN DS2482_STATUS_SD ELSE 0)

\* one search step on the line: both read slots are the wired AND of what the
\* active devices send (1 when none sends), then the chip writes the direction
\* bit: the bit all agree on, v when they differ, 1 when none answered
TripletId(c) ==
    IF c.mode = "search" /\ \E d \in c.active : RomBit(d, c.pos) = 0 THEN 0 ELSE 1
TripletCmp(c) ==
    IF c.mode = "search" /\ \E d \in c.active : RomBit(d, c.pos) = 1 THEN 0 ELSE 1
TripletDir(id, cmp, v) ==
    IF id # cmp THEN id ELSE IF id = 0 THEN v ELSE 1

ChipTriplet(c, v) ==
    LET id == TripletId(c)
        cmp == TripletCmp(c)
        dir == TripletDir(id, cmp, v)
        st == WithBits(c.status,
                       DS2482_STATUS_SBR + DS2482_STATUS_TSB + DS2482_STATUS_DIR,
                       id * DS2482_STATUS_SBR + cmp * DS2482_STATUS_TSB
                       + dir * DS2482_STATUS_DIR)
        c1 == IF c.mode # "search" THEN c
              ELSE [c EXCEPT !.active = {d \in c.active : RomBit(d, c.pos) = dir},
                             !.pos = c.pos + 1,
                             !.mode = IF c.pos + 1 = RomBits THEN "selected" ELSE "search"]
    IN Started(c1, st)

ChipWriteByte(c, d) ==
    LET c1 == IF c.mode = "rom" /\ d = WIRE_COMMAND_SEARCH
              THEN [c EXCEPT !.mode = "search", !.active = bus, !.pos = 0]
              ELSE IF c.mode = "rom" /\ d = WIRE_COMMAND_SKIP
              THEN [c EXCEPT !.mode = "selected", !.active = bus]
              ELSE IF c.mode = "rom" THEN [c EXCEPT !.mode = "idle", !.active = {}]
              ELSE c
    IN Started(c1, c.status)

\* an I2C write of the bytes tx arrives at the chip
ChipWrite(c, tx) ==
    IF Len(tx) = 0 THEN c
    ELSE IF tx[1] = DS2482_COMMAND_RESET
    THEN [c EXCEPT !.cfg = 0, !.rp = DS2482_POINTER_STATUS, !.status = 0,
                   !.next = 0, !.busy = 0, !.mode = "idle", !.active = {}]
    ELSE IF tx[1] = DS2482_COMMAND_SRP
    THEN IF Len(tx) >= 2 /\ tx[2] \in {DS2482_POINTER_STATUS, DS2482_POINTER_DATA,
                                       DS2482_POINTER_CONFIG}
         THEN [c EXCEPT !.rp = tx[2]] ELSE c
    ELSE IF IsBusy(c) THEN c
    ELSE IF tx[1] = DS2482_COMMAND_WRITECONFIG
    THEN IF Len(tx) >= 2 /\ tx[2] \div 16 = 15 - (tx[2] % 16)
         THEN [c EXCEPT !.cfg = tx[2] % 16, !.rp = DS2482_POINTER_CONFIG]
         ELSE [c EXCEPT !.rp = DS2482_POINTER_CONFIG]
    ELSE IF tx[1] = DS2482_COMMAND_RESETWIRE
    THEN Started([c EXCEPT !.mode = IF bus = {} THEN "idle" ELSE "rom", !.active = {}],
                 WithBits(c.status, DS2482_STATUS_PPD + DS2482_STATUS_SD, ResetSample))
    ELSE IF tx[1] = DS2482_COMMAND_WRITEBYTE /\ Len(tx) >= 2
    THEN ChipWriteByte(c, tx[2])
    ELSE IF tx[1] = DS2482_COMMAND_READBYTE
    THEN [Started(c, c.status) EXCEPT !.data = IF c.mode = "selected" /\ c.active # {}
                                                THEN 170 ELSE 255]
    ELSE IF tx[1] = DS2482_COMMAND_SINGLEBIT /\ Len(tx) >= 2
    THEN Started(c, WithBits(c.status, DS2482_STATUS_SBR,
                             (tx[2] \div 128) * DS2482_STATUS_SBR))
    ELSE IF tx[1] = DS2482_COMMAND_TRIPLET /\ Len(tx) >= 2
    THEN ChipTriplet(c, tx[2] \div 128)
    ELSE c

\* the byte a one-byte I2C read returns
ChipReadByte(c) ==
    IF c.rp = DS2482_POINTER_STATUS
    THEN c.status + (IF IsBusy(c) THEN DS2482_STATUS_BUSY ELSE 0)
    ELSE IF c.rp = DS2482_POINTER_DATA THEN c.data
    ELSE c.cfg

\* the chip after that read: a poll of the status register is one unit of time
ChipAfterRead(c) ==
    IF c.rp = DS2482_POINTER_STATUS /\ c.busy > 0
    THEN IF c.busy = 1 THEN [c EXCEPT !.busy = 0, !.status = c.next]
         ELSE [c EXCEPT !.busy = c.busy - 1]
    ELSE c

(***************************************************************************)
(* The driver.  A world w holds the members of the OneWire object, the     *)
(* transmit buffer of the Wire library (tx), the chip, and what the call   *)
(* under way has done so far: w.ret is the value the last returning        *)
(* sub-call produced.                                                      *)
(***************************************************************************)

\* OneWire::begin: Wire.beginTransmission starts an empty transmit buffer
begin(w) == [w EXCEPT !.tx = <<>>]

\* OneWire::writeByte: Wire.write queues one byte
writeByte(w, data) == [w EXCEPT !.tx = Append(@, U8(data))]

\* OneWire::end: Wire.endTransmission sends the queued bytes as one write
\* and leaves the buffer empty; the bridge acknowledges (0)
end(w) ==
    [w EXCEPT !.chip = ChipWrite(@, w.tx),
              !.nTx = @ + 1,
              !.log = IF Len(w.tx) > 0 /\ w.tx[1] = DS2482_COMMAND_SRP
                      THEN @ ELSE Append(@, w.tx),
              !.polled = IF Len(w.tx) > 0 /\ w.tx[1] = DS2482_COMMAND_SRP
                         THEN @ ELSE Append(@, w.nRd),
              !.busyTx = IF Len(w.tx) > 0 /\ w.tx[1] # DS2482_COMMAND_SRP
                            /\ IsBusy(w.chip)
                         THEN Append(@, w.tx) ELSE @,
              !.tx = <<>>,
              !.ret = 0]

\* OneWire::readByte: Wire.requestFrom(mAddress, 1) and Wire.read
readByte(w) ==
    [w EXCEPT !.ret = ChipReadByte(w.chip),
              !.last = ChipReadByte(w.chip),
              !.chip = ChipAfterRead(@),
              !.nRd = @ + 1]

checkPresence(w) ==
    [end(begin(w)) EXCEPT !.ret = IF LNot(@) # 0 THEN 1 ELSE 0]

\* a setReadPointer that sends nothing
setReadPointerSilent(w, readPointer) == [w EXCEPT !.ret = 0]

setReadPointer(w, readPointer) ==
    end(writeByte(writeByte(begin(w), DS2482_COMMAND_SRP), readPointer))

readStatus(w) == readByte(setReadPointer(w, DS2482_POINTER_STATUS))

readData(w) == readByte(setReadPointer(w, DS2482_POINTER_DATA))

readConfig(w) == readByte(setReadPointer(w, DS2482_POINTER_CONFIG))

(***************************************************************************)
(* A function of the driver that uses a value more than once takes it as   *)
(* a parameter of an operator for the rest of its body: the value is then  *)
(* computed once and the definitions stay small when they are unfolded.    *)
(***************************************************************************)

\* the frame of waitOnBusy after a pass of its loop that read w.ret as status:
\* the world, whose ret is the local `status`, and whether the loop was left
\* by break
waitFrame(w) == [w |-> w, brk |-> LNot(And(w.ret, DS2482_STATUS_BUSY)) # 0]

\* a pass of the loop that never breaks
waitBodyNoBreak(f) == [w |-> readStatus(f.w), brk |-> FALSE]

\* the body of the for loop of waitOnBusy
waitBody(f) == waitFrame(readStatus(f.w))

\* n more passes of the loop, unless it was left; the passes are split in halves
\* to keep the evaluation shallow
RECURSIVE waitLoop(_, _)
waitLoop(f, n) ==
    IF f.brk \/ n = 0 THEN f
    ELSE IF n = 1 THEN waitBody(f)
    ELSE waitLoop(waitLoop(f, n \div 2), n - n \div 2)

\* waitOnBusy after its loop: w.ret is the local `status`, which it returns
waitReturn(w) ==
    IF And(w.ret, DS2482_STATUS_BUSY) # 0
    THEN [w EXCEPT !.mError = DS2482_ERROR_TIMEOUT, !.events = @ \cup {"timeout"}]
    ELSE w

\* a wait that polls for twice as many passes
waitOnBusyTwice(w) ==
    waitReturn(waitLoop([w |-> w, brk |-> FALSE], 2 * PollBudget).w)

waitOnBusy(w) == waitReturn(waitLoop([w |-> w, brk |-> FALSE], PollBudget).w)

\* the config byte without the complemented upper nibble
ConfigFrameLow(config) == U8(config)

\* config | (~config)<<4, converted to the uint8_t parameter of writeByte
ConfigFrame(config) == U8(Or(config, Shl(NotInt(config), 4)))

\* a read-back test that clears the error value when the config byte matches
writeConfigCheckClears(w, config) ==
    IF w.ret # config
    THEN [w EXCEPT !.mError = DS2482_ERROR_CONFIG, !.events = @ \cup {"config"}]
    ELSE [w EXCEPT !.mError = 0]

\* writeConfig after its readByte(), whose value is w.ret
writeConfigCheck(w, config) ==
    IF w.ret # config
    THEN [w EXCEPT !.mError = DS2482_ERROR_CONFIG, !.events = @ \cup {"config"}]
    ELSE w

writeConfig(w, config) ==
    writeConfigCheck(
        readByte(end(writeByte(writeByte(begin(waitOnBusy(w)),
                                         DS2482_COMMAND_WRITECONFIG),
                               ConfigFrame(config)))),
        config)

\* setStrongPullup after its readConfig(), whose value is w.ret
setStrongPullupWrite(w) == writeConfig(w, Or(w.ret, DS2482_CONFIG_SPU))

setStrongPullup(w) == setStrongPullupWrite(readConfig(w))

\* a clearStrongPullup that writes back the value it read
clearStrongPullupKeep(w) == writeConfig(w, w.ret)

\* clearStrongPullup after its readConfig(), whose value is w.ret
clearStrongPullupWrite(w) == writeConfig(w, And(w.ret, LNot(DS2482_CONFIG_SPU)))

clearStrongPullup(w) == clearStrongPullupWrite(readConfig(w))

\* wireReset up to its last waitOnBusy(), whose value is the local `status`
wireResetCycle(w) ==
    waitOnBusy(end(writeByte(begin(waitOnBusy(clearStrongPullup(waitOnBusy(w)))),
                             DS2482_COMMAND_RESETWIRE)))

\* the end of a wireReset that reports a presence pulse whatever the status says
wireResetPresent(w) ==
    [w EXCEPT !.mError = IF And(w.ret, DS2482_STATUS_SD) # 0
                         THEN DS2482_ERROR_SHORT ELSE @,
              !.events = IF And(w.ret, DS2482_STATUS_SD) # 0
                         THEN @ \cup {"short"} ELSE @,
              !.ret = 1]

\* the end of a wireReset that does not look at the SD bit
wireResetIgnoresShort(w) ==
    [w EXCEPT !.ret = IF And(@, DS2482_STATUS_PPD) # 0 THEN 1 ELSE 0]

\* wireReset after its last waitOnBusy(), whose value w.ret is `status`
wireResetReturn(w) ==
    [w EXCEPT !.mError = IF And(w.ret, DS2482_STATUS_SD) # 0
                         THEN DS2482_ERROR_SHORT ELSE @,
              !.events = IF And(w.ret, DS2482_STATUS_SD) # 0
                         THEN @ \cup {"short"} ELSE @,
              !.ret = IF And(@, DS2482_STATUS_PPD) # 0 THEN 1 ELSE 0]

wireReset(w) == wireResetReturn(wireResetCycle(w))

\* if (power) setStrongPullup();
withPower(w, power) == IF power # 0 THEN setStrongPullup(w) ELSE w

\* a wireWriteByte that does not wait for the chip before it sends
wireWriteByteNoWait(w, data, power) ==
    end(writeByte(writeByte(begin(withPower(w, power)),
                            DS2482_COMMAND_WRITEBYTE),
                  data))

wireWriteByte(w, data, power) ==
    end(writeByte(writeByte(begin(withPower(waitOnBusy(w), power)),
                            DS2482_COMMAND_WRITEBYTE),
                  data))

wireReadByte(w) ==
    readData(waitOnBusy(end(writeByte(begin(waitOnBusy(w)),
                                      DS2482_COMMAND_READBYTE))))

\* a wireWriteBit that does not wait for the chip before it sends
wireWriteBitNoWait(w, data, power) ==
    end(writeByte(writeByte(begin(withPower(w, power)),
                            DS2482_COMMAND_SINGLEBIT),
                  IF data # 0 THEN 128 ELSE 0))

wireWriteBit(w, data, power) ==
    end(writeByte(writeByte(begin(withPower(waitOnBusy(w), power)),
                            DS2482_COMMAND_SINGLEBIT),
                  IF data # 0 THEN 128 ELSE 0))

wireReadBit(w) ==
    [waitOnBusy(wireWriteBit(w, 1, 0))
        EXCEPT !.ret = IF And(@, DS2482_STATUS_SBR) # 0 THEN 1 ELSE 0]

\* OneWire::write forwards to wireWriteByte
write(w, v, power) == wireWriteByte(w, v, power)

\* deviceReset: begin(); write(DS2482_COMMAND_RESET); end();  write here is the
\* member OneWire::write(uint8_t v, uint8_t power = 0)
deviceReset(w) == end(write(begin(w), DS2482_COMMAND_RESET, 0))

wireSkip(w) == wireWriteByte(w, WIRE_COMMAND_SKIP, 0)

\* wireSelect; selectLoop is its for loop from byte i on.  The test on v.nTx is
\* always true: it makes the world of one pass be computed before the next begins
wireSelect(w, rom) ==
    LET RECURSIVE selectLoop(_, _)
        selectLoop(v, i) ==
            IF v.nTx >= 0 /\ i < 8
            THEN selectLoop(wireWriteByte(v, rom[i], 0), i + 1)
            ELSE v
    IN selectLoop(wireWriteByte(w, WIRE_COMMAND_SELECT, 0), 0)

wireResetSearch(w) ==
    [w EXCEPT !.searchLastDiscrepancy = 0,
              !.searchLastDeviceFlag = 0,
              !.searchAddress = [i \in 0..7 |-> 0]]

\* a direction that is 0 at the bit of the last discrepancy as at the bits
\* above it
searchDirectionZero(w, i) ==
    IF i < w.searchLastDiscrepancy
    THEN And(w.searchAddress[i \div 8], Pow2(i % 8))
    ELSE 0

\* the direction wireSearch asks for at bit i
searchDirection(w, i) ==
    IF i < w.searchLastDiscrepancy
    THEN And(w.searchAddress[i \div 8], Pow2(i % 8))
    ELSE IF i = w.searchLastDiscrepancy THEN 1 ELSE 0

\* the triplet of the loop body at bit i, up to `status = waitOnBusy()`
searchTriplet(w, i) ==
    waitOnBusy(end(writeByte(writeByte(begin(waitOnBusy(w)), DS2482_COMMAND_TRIPLET),
                             IF searchDirection(w, i) # 0 THEN 128 ELSE 0)))

\* the loop body after the triplet without the write of the direction bit to
\* searchAddress
searchUpdateNoStore(f, i, w) ==
    IF And(w.ret, DS2482_STATUS_SBR) # 0 /\ And(w.ret, DS2482_STATUS_TSB) # 0
    THEN [f EXCEPT !.w = [w EXCEPT !.statuses = Append(@, w.ret)], !.returned = TRUE]
    ELSE [f EXCEPT !.w = [w EXCEPT !.statuses = Append(@, w.ret)]]

\* the loop body after the triplet with last_zero set at every bit where both
\* read slots were 0, whatever the direction taken
searchUpdateAnyDirection(f, i, w) ==
    IF And(w.ret, DS2482_STATUS_SBR) # 0 /\ And(w.ret, DS2482_STATUS_TSB) # 0
    THEN [f EXCEPT !.w = [w EXCEPT !.statuses = Append(@, w.ret)], !.returned = TRUE]
    ELSE [f EXCEPT
            !.w = [w EXCEPT !.searchAddress[i \div 8] =
                      IF And(w.ret, DS2482_STATUS_DIR) # 0 THEN Or(@, Pow2(i % 8))
                      ELSE And(@, NotInt(Pow2(i % 8))),
                            !.statuses = Append(@, w.ret)],
            !.last_zero = IF And(w.ret, DS2482_STATUS_SBR) = 0
                             /\ And(w.ret, DS2482_STATUS_TSB) = 0
                          THEN i ELSE @]

\* the loop body after the triplet that goes on when both read slots were 1
searchUpdateNoReturn(f, i, w) ==
    [f EXCEPT
        !.w = [w EXCEPT !.searchAddress[i \div 8] =
                  IF And(w.ret, DS2482_STATUS_DIR) # 0 THEN Or(@, Pow2(i % 8))
                  ELSE And(@, NotInt(Pow2(i % 8))),
                        !.statuses = Append(@, w.ret)],
        !.last_zero = IF And(w.ret, DS2482_STATUS_SBR) = 0
                         /\ And(w.ret, DS2482_STATUS_TSB) = 0
                         /\ And(w.ret, DS2482_STATUS_DIR) = 0
                      THEN i ELSE @]

\* the loop body after the triplet that writes to searchAddress the direction
\* it asked for, not the one the chip reports
searchUpdateStoresRequested(f, i, w) ==
    IF And(w.ret, DS2482_STATUS_SBR) # 0 /\ And(w.ret, DS2482_STATUS_TSB) # 0
    THEN [f EXCEPT !.w = [w EXCEPT !.statuses = Append(@, w.ret)], !.returned = TRUE]
    ELSE [f EXCEPT
            !.w = [w EXCEPT !.searchAddress[i \div 8] =
                      IF searchDirection(w, i) # 0 THEN Or(@, Pow2(i % 8))
                      ELSE And(@, NotInt(Pow2(i % 8))),
                            !.statuses = Append(@, w.ret)],
            !.last_zero = IF And(w.ret, DS2482_STATUS_SBR) = 0
                             /\ And(w.ret, DS2482_STATUS_TSB) = 0
                             /\ And(w.ret, DS2482_STATUS_DIR) = 0
                          THEN i ELSE @]

\* the loop body at bit i after the triplet, whose status is w.ret; f is the
\* frame of the call: the world, the local last_zero, and whether the body
\* returned 0.  The status is kept in w.statuses
searchUpdate(f, i, w) ==
    LET searchByte == i \div 8
        searchBit == Pow2(i % 8)
        id == And(w.ret, DS2482_STATUS_SBR)
        comp_id == And(w.ret, DS2482_STATUS_TSB)
        direction == And(w.ret, DS2482_STATUS_DIR)
    IN IF id # 0 /\ comp_id # 0
       THEN [f EXCEPT !.w = [w EXCEPT !.statuses = Append(@, w.ret)],
                      !.returned = TRUE]
       ELSE [f EXCEPT
               !.w = [w EXCEPT !.searchAddress[searchByte] =
                         IF direction # 0 THEN Or(@, searchBit)
                         ELSE And(@, NotInt(searchBit)),
                               !.statuses = Append(@, w.ret)],
               !.last_zero = IF id = 0 /\ comp_id = 0 /\ direction = 0
                             THEN i ELSE @]

\* the body of the for loop of wireSearch at bit i
searchBody(f, i) == searchUpdate(f, i, searchTriplet(f.w, i))

\* the for loop of wireSearch: n more passes from bit i on, unless the body
\* returned; the passes are split in halves to keep the evaluation shallow
RECURSIVE searchLoop(_, _, _)
searchLoop(f, i, n) ==
    IF f.returned \/ n = 0 THEN f
    ELSE IF n = 1 THEN searchBody(f, i)
    ELSE searchLoop(searchLoop(f, i, n \div 2), i + n \div 2, n - n \div 2)

\* wireSearch after its loop, without the copy to the caller's buffer
searchReturnNoCopy(f) ==
    IF f.returned THEN [f.w EXCEPT !.ret = 0]
    ELSE [f.w EXCEPT !.searchLastDiscrepancy = f.last_zero,
                     !.searchLastDeviceFlag = IF LNot(f.last_zero) # 0 THEN 1 ELSE @,
                     !.ret = 1]

\* wireSearch after its loop
searchReturn(f) ==
    IF f.returned THEN [f.w EXCEPT !.ret = 0]
    ELSE [f.w EXCEPT !.searchLastDiscrepancy = f.last_zero,
                     !.searchLastDeviceFlag = IF LNot(f.last_zero) # 0 THEN 1 ELSE @,
                     !.address = f.w.searchAddress,
                     !.ret = 1]

\* wireSearch after its wireReset(), whose value is w.ret
searchStart(w) ==
    IF LNot(w.ret) # 0 THEN [w EXCEPT !.ret = 0]
    ELSE searchReturn(
            searchLoop([w |-> wireWriteByte(waitOnBusy(w), WIRE_COMMAND_SEARCH, 0),
                        last_zero |-> 0, returned |-> FALSE],
                       0, RomBits))

\* the devices lose contact with the line while the call is under way: none
\* answers the triplets that follow, until the next reset cycle
searchUnplugged(f) == [f EXCEPT !.w.chip.active = {}]

\* wireSearch after its wireReset(), on a line whose devices lose contact
\* after the triplet of bit k - 1
searchStartCut(w, k) ==
    IF LNot(w.ret) # 0 THEN [w EXCEPT !.ret = 0]
    ELSE searchReturn(
            searchLoop(
                searchUnplugged(
                    searchLoop([w |-> wireWriteByte(waitOnBusy(w), WIRE_COMMAND_SEARCH, 0),
                                last_zero |-> 0, returned |-> FALSE],
                               0, k)),
                k, RomBits - k))

\* a search that never takes itself for finished
searchNeverFinished(w) == FALSE

\* if (searchLastDeviceFlag)
searchFinished(w) == w.searchLastDeviceFlag # 0

wireSearch(w) ==
    IF searchFinished(w) THEN [w EXCEPT !.ret = 0]
    ELSE searchStart(wireReset(w))

\* wireSearch on a line whose devices lose contact after the triplet of bit
\* k - 1
wireSearchCut(w, k) ==
    IF searchFinished(w) THEN [w EXCEPT !.ret = 0]
    ELSE searchStartCut(wireReset(w), k)

(***************************************************************************)
(* crc8, in its two builds.  The buffer addr is a sequence of bytes and    *)
(* the function reads its first len bytes.                                 *)
(***************************************************************************)

\* dscrc_table: the entry at offset k is dscrc_table[k + 1]
dscrc_table ==
    <<   0,  94, 188, 226,  97,  63, 221, 131, 194, 156, 126,  32, 163, 253,  31,  65,
       157, 195,  33, 127, 252, 162,  64,  30,  95,   1, 227, 189,  62,  96, 130, 220,
        35, 125, 159, 193,  66,  28, 254, 160, 225, 191,  93,   3, 128, 222,  60,  98,
       190, 224,   2,  92, 223, 129,  99,  61, 124,  34, 192, 158,  29,  67, 161, 255,
        70,  24, 250, 164,  39, 121, 155, 197, 132, 218,  56, 102, 229, 187,  89,   7,
       219, 133, 103,  57, 186, 228,   6,  88,  25,  71, 165, 251, 120,  38, 196, 154,
       101,  59, 217, 135,   4,  90, 184, 230, 167, 249,  27,  69, 198, 152, 122,  36,
       248, 166,  68,  26, 153, 199,  37, 123,  58, 100, 134, 216,  91,   5, 231, 185,
       140, 210,  48, 110, 237, 179,  81,  15,  78,  16, 242, 172,  47, 113, 147, 205,
        17,  79, 173, 243, 112,  46, 204, 146, 211, 141, 111,  49, 178, 236,  14,  80,
       175, 241,  19,  77, 206, 144, 114,  44, 109,  51, 209, 143,  12,  82, 176, 238,
        50, 108, 142, 208,  83,  13, 239, 177, 240, 174,  76,  18, 145, 207,  45, 115,
       202, 148, 118,  40, 171, 245,  23,  73,   8,  86, 180, 234, 105,  55, 213, 139,
        87,   9, 235, 181,  54, 104, 138, 212, 149, 203,  41, 119, 244, 170,  72,  22,
       233, 183,  85,  11, 136, 214,  52, 106,  43, 117, 151, 201,  74,  20, 246, 168,
       116,  42, 200, 150,  21,  75, 169, 247, 182, 232,  10,  84, 215, 137, 107,  53 >>

\* a lookup that leaves the running crc out of the index
crc8LookupByte(crc, byte) == dscrc_table[byte + 1]

\* pgm_read_byte(dscrc_table + (crc ^ *addr++))
crc8Lookup(crc, byte) == dscrc_table[Xor(crc, byte) + 1]

\* the while loop of crc8 from byte i on, in the build with ONEWIRE_CRC8_TABLE
RECURSIVE crc8Loop(_, _, _, _)
crc8Loop(crc, addr, len, i) ==
    IF i > len THEN crc
    ELSE crc8Loop(crc8Lookup(crc, addr[i]), addr, len, i + 1)

crc8(addr, len) == crc8Loop(0, addr, len, 1)

\* the build without the table.  mix = (crc ^ inbyte) & 0x01
crc8Mix(crc, inbyte) == And(Xor(crc, inbyte), 1)

\* a shift without the feedback
crc8ShiftOnly(crc, mix) == crc \div 2

\* crc >>= 1; if (mix) crc ^= 0x8C;
crc8Shift(crc, mix) == IF mix # 0 THEN Xor(crc \div 2, 140) ELSE crc \div 2

\* the for loop over the bits of one byte, with i passes left
RECURSIVE crc8Bits(_, _, _)
crc8Bits(crc, inbyte, i) ==
    IF i = 0 THEN crc
    ELSE crc8Bits(crc8Shift(crc, crc8Mix(crc, inbyte)), inbyte \div 2, i - 1)

RECURSIVE crc8BitwiseLoop(_, _, _, _)
crc8BitwiseLoop(crc, addr, len, i) ==
    IF i > len THEN crc
    ELSE crc8BitwiseLoop(crc8Bits(crc, addr[i], 8), addr, len, i + 1)

crc8Bitwise(addr, len) == crc8BitwiseLoop(0, addr, len, 1)

(***************************************************************************)
(* The state machine: one action per public method.                        *)
(***************************************************************************)

\* the world a call starts in
World ==
    [mError |-> mError,
     searchAddress |-> searchAddress,
     searchLastDiscrepancy |-> searchLastDiscrepancy,
     searchLastDeviceFlag |-> searchLastDeviceFlag,
     tx |-> <<>>,
     chip |-> chip,
     log |-> <<>>,
     nTx |-> 0,
     nRd |-> 0,
     polled |-> <<>>,
     statuses |-> <<>>,
     busyTx |-> <<>>,
     last |-> -1,
     ret |-> 0,
     address |-> address,
     events |-> events]

\* the call `name(arg)` ends in world w
Ends(name, arg, w) ==
    /\ calls > 0
    /\ calls' = calls - 1
    /\ mError' = w.mError
    /\ searchAddress' = w.searchAddress
    /\ searchLastDiscrepancy' = w.searchLastDiscrepancy
    /\ searchLastDeviceFlag' = w.searchLastDeviceFlag
    /\ chip' = w.chip
    /\ op' = [name |-> name, arg |-> arg]
    /\ ret' = w.ret
    /\ address' = w.address
    /\ log' = w.log
    /\ nTx' = w.nTx
    /\ nRd' = w.nRd
    /\ polled' = w.polled
    /\ statuses' = w.statuses
    /\ busyTx' = w.busyTx
    /\ last' = w.last
    /\ events' = w.events
    /\ UNCHANGED <<bus, fault, lat, buffer, frames>>

\* the call `name(arg)` runs `result`, which is computed once
Return(name, arg, result) ==
    /\ calls > 0
    /\ \E w \in {result} : Ends(name, arg, w)

\* a ROM address with the family code in byte 0 and the serial bits of S set
Rom(family, S) ==
    [i \in 0..7 |->
        IF i = 0 THEN family
        ELSE LET b(k) == IF (8 * i + k) \in S THEN Pow2(k) ELSE 0
             IN b(0) + b(1) + b(2) + b(3) + b(4) + b(5) + b(6) + b(7)]

Families == {40, 41}
SerialBits == {9, 63}
Roms == {Rom(f, S) : f \in Families, S \in SUBSET SerialBits}
RomArg(rom) == <<rom[0], rom[1], rom[2], rom[3], rom[4], rom[5], rom[6], rom[7]>>

\* values the calls of the model are made with
ConfigArgs == 0..15
DataArgs == {0, WIRE_COMMAND_SEARCH}
PowerArgs == {0, 1}
\* an address wireSelect is called with besides those of the devices on the
\* line: its eight bytes differ from one another
SelectArgs == {[i \in 0..7 |-> 17 * (i + 1)]}
PointerArgs == {DS2482_POINTER_STATUS, DS2482_POINTER_DATA, DS2482_POINTER_CONFIG}
Stalls == {1, PollBudget - 1, PollBudget, PollBudget + 1, Stuck}

GetError ==
    /\ Return("getError", <<>>, [World EXCEPT !.ret = mError])
    /\ UNCHANGED <<found, enum>>

CheckPresence ==
    /\ Return("checkPresence", <<>>, checkPresence(World))
    /\ UNCHANGED <<found, enum>>

DeviceReset ==
    /\ Return("deviceReset", <<>>, deviceReset(World))
    /\ UNCHANGED <<found, enum>>

SetReadPointer ==
    \E p \in PointerArgs :
        /\ Return("setReadPointer", <<p>>, setReadPointer(World, p))
        /\ UNCHANGED <<found, enum>>

ReadStatus ==
    /\ Return("readStatus", <<>>, readStatus(World))
    /\ UNCHANGED <<found, enum>>

ReadData ==
    /\ Return("readData", <<>>, readData(World))
    /\ UNCHANGED <<found, enum>>

ReadConfig ==
    /\ Return("readConfig", <<>>, readConfig(World))
    /\ UNCHANGED <<found, enum>>

WaitOnBusy ==
    /\ Return("waitOnBusy", <<>>, waitOnBusy(World))
    /\ UNCHANGED <<found, enum>>

WriteConfig ==
    \E c \in ConfigArgs :
        /\ Return("writeConfig", <<c>>, writeConfig(World, c))
        /\ UNCHANGED <<found, enum>>

SetStrongPullup ==
    /\ Return("setStrongPullup", <<>>, setStrongPullup(World))
    /\ UNCHANGED <<found, enum>>

ClearStrongPullup ==
    /\ Return("clearStrongPullup", <<>>, clearStrongPullup(World))
    /\ UNCHANGED <<found, enum>>

WireReset ==
    /\ Return("wireReset", <<>>, wireReset(World))
    /\ UNCHANGED <<found, enum>>

WireWriteByte ==
    \E d \in DataArgs, p \in PowerArgs :
        /\ Return("wireWriteByte", <<d, p>>, wireWriteByte(World, d, p))
        /\ UNCHANGED <<found, enum>>

WireReadByte ==
    /\ Return("wireReadByte", <<>>, wireReadByte(World))
    /\ UNCHANGED <<found, enum>>

WireWriteBit ==
    \E d \in {0, 1}, p \in PowerArgs :
        /\ Return("wireWriteBit", <<d, p>>, wireWriteBit(World, d, p))
        /\ UNCHANGED <<found, enum>>

WireReadBit ==
    /\ Return("wireReadBit", <<>>, wireReadBit(World))
    /\ UNCHANGED <<found, enum>>

WireSkip ==
    /\ Return("wireSkip", <<>>, wireSkip(World))
    /\ UNCHANGED <<found, enum>>

WireSelect ==
    \E r \in bus \cup SelectArgs :
        /\ Return("wireSelect", RomArg(r), wireSelect(World, r))
        /\ UNCHANGED <<found, enum>>

\* wireResetSearch, also reached as reset_search
WireResetSearch ==
    /\ Return("wireResetSearch", <<>>, wireResetSearch(World))
    /\ found' = <<>>
    /\ enum' = TRUE

\* wireSearch, also reached as search
WireSearch ==
    /\ calls > 0
    /\ \E w \in {wireSearch(World)} :
          /\ Ends("wireSearch", <<>>, w)
          /\ found' = IF w.ret # 0 THEN Append(found, w.address) ELSE found
          /\ UNCHANGED enum

\* the bits of a search before which the devices lose contact
CutBits == {1, 10}

\* wireSearch during which the devices lose contact; they are back on the
\* line at the next reset cycle
WireSearchCut ==
    /\ calls > 0
    /\ \E k \in CutBits :
          \E w \in {wireSearchCut(World, k)} :
              /\ Ends("wireSearch", <<>>, w)
              /\ found' = IF w.ret # 0 THEN Append(found, w.address) ELSE found
              /\ UNCHANGED enum

\* crc8 in the build with ONEWIRE_CRC8_TABLE, over the whole of the buffer
Crc8 ==
    /\ Return("crc8", buffer, [World EXCEPT !.ret = crc8(buffer, Len(buffer))])
    /\ UNCHANGED <<found, enum>>

\* crc8 in the build without the table
Crc8Bitwise ==
    /\ Return("crc8 bitwise", buffer,
              [World EXCEPT !.ret = crc8Bitwise(buffer, Len(buffer))])
    /\ UNCHANGED <<found, enum>>

(***************************************************************************)
(* Calls of two callers on the one object, taken one I2C transaction at a  *)
(* time.  frames[p].pc is where caller p stands in its call:               *)
(*   select   readStatus, readData, readConfig: before setReadPointer      *)
(*   read     the same: before readByte                                    *)
(*   poll     writeConfig, in waitOnBusy: before the setReadPointer of     *)
(*            readStatus                                                   *)
(*   status   the same: before the readByte of readStatus                  *)
(*   send     writeConfig: before the write-config transaction             *)
(*   check    writeConfig: before the readByte of the read-back            *)
(* sel is the register the caller's own last transaction selected, seen    *)
(* the register a transaction of the other caller selected since, got the  *)
(* register the caller's read returned.                                    *)
(***************************************************************************)

\* the callers that share the object: the main program and a handler that
\* runs between two of its I2C transactions
Callers == {"loop", "handler"}

\* no register: the read pointer value of a caller that has selected nothing
NoRegister == 0

\* a caller that is in no call
IdleFrame ==
    [name |-> "none", arg |-> 0, pc |-> "idle", i |-> 0,
     sel |-> NoRegister, seen |-> NoRegister, got |-> NoRegister]

\* the register each read operation selects
PointerOf(name) ==
    IF name = "readStatus" THEN DS2482_POINTER_STATUS
    ELSE IF name = "readData" THEN DS2482_POINTER_DATA
    ELSE DS2482_POINTER_CONFIG

\* caller p selected register ptr and the chip's read pointer became rp: the
\* callers that wait for a read of theirs see rp
Selected(p, ptr, pc, rp) ==
    [q \in Callers |->
        IF q = p THEN [frames[q] EXCEPT !.pc = pc, !.sel = ptr,
                                        !.seen = NoRegister, !.got = NoRegister]
        ELSE IF frames[q].pc \in {"read", "status", "check"}
        THEN [frames[q] EXCEPT !.seen = rp]
        ELSE frames[q]]

\* what a step in the middle of a call leaves as it is
StepKeeps ==
    UNCHANGED <<searchAddress, searchLastDiscrepancy, searchLastDeviceFlag, bus,
                fault, lat, address, log, nTx, nRd, polled, statuses, busyTx, found,
                enum, buffer>>

\* a caller enters readStatus, readData or readConfig
CallRead ==
    \E p \in Callers, name \in {"readStatus", "readData", "readConfig"} :
        /\ calls > 0
        /\ frames[p].pc = "idle"
        /\ frames' = [frames EXCEPT ![p] = [IdleFrame EXCEPT !.name = name, !.pc = "select"]]
        /\ calls' = calls - 1
        /\ UNCHANGED <<mError, events, chip, op, ret, last>>
        /\ StepKeeps

\* a caller enters writeConfig(config): waitOnBusy and its loop come first
CallWriteConfig ==
    \E p \in Callers, config \in ConfigArgs :
        /\ calls > 0
        /\ frames[p].pc = "idle"
        /\ frames' = [frames EXCEPT ![p] = [IdleFrame EXCEPT !.name = "writeConfig",
                                               !.arg = config, !.pc = "poll",
                                               !.i = PollBudget]]
        /\ calls' = calls - 1
        /\ UNCHANGED <<mError, events, chip, op, ret, last>>
        /\ StepKeeps

\* setReadPointer of readStatus, readData, readConfig
StepSelect ==
    \E p \in Callers :
        /\ frames[p].pc = "select"
        /\ \E w \in {setReadPointer(World, PointerOf(frames[p].name))} :
              /\ chip' = w.chip
              /\ frames' = Selected(p, PointerOf(frames[p].name), "read", w.chip.rp)
        /\ UNCHANGED <<mError, events, op, ret, last, calls>>
        /\ StepKeeps

\* readByte of readStatus, readData, readConfig, and the return of its value
StepRead ==
    \E p \in Callers :
        /\ frames[p].pc = "read"
        /\ \E w \in {readByte(World)} :
              /\ chip' = w.chip
              /\ ret' = w.ret
              /\ last' = w.last
        /\ frames' = [frames EXCEPT ![p].pc = "done", ![p].got = chip.rp]
        /\ op' = [name |-> frames[p].name, arg |-> <<>>]
        /\ UNCHANGED <<mError, events, calls>>
        /\ StepKeeps

\* waitOnBusy in writeConfig: the setReadPointer of readStatus
StepPoll ==
    \E p \in Callers :
        /\ frames[p].pc = "poll"
        /\ \E w \in {setReadPointer(World, DS2482_POINTER_STATUS)} :
              /\ chip' = w.chip
              /\ frames' = Selected(p, DS2482_POINTER_STATUS, "status", w.chip.rp)
        /\ UNCHANGED <<mError, events, op, ret, last, calls>>
        /\ StepKeeps

\* waitOnBusy in writeConfig: the readByte of readStatus, the test of the busy
\* bit, and after the last pass the timeout
StepStatus ==
    \E p \in Callers :
        /\ frames[p].pc = "status"
        /\ \E w \in {readByte(World)} :
              /\ chip' = w.chip
              /\ last' = w.last
              /\ IF And(w.ret, DS2482_STATUS_BUSY) = 0
                 THEN /\ frames' = [frames EXCEPT ![p].pc = "send", ![p].got = chip.rp]
                      /\ UNCHANGED <<mError, events>>
                 ELSE IF frames[p].i > 1
                 THEN /\ frames' = [frames EXCEPT ![p].pc = "poll", ![p].got = chip.rp,
                                                  ![p].i = @ - 1]
                      /\ UNCHANGED <<mError, events>>
                 ELSE /\ frames' = [frames EXCEPT ![p].pc = "send", ![p].got = chip.rp]
                      /\ mError' = DS2482_ERROR_TIMEOUT
                      /\ events' = events \cup {"timeout"}
        /\ UNCHANGED <<op, ret, calls>>
        /\ StepKeeps

\* writeConfig: the write-config transaction, after which the chip's read
\* pointer is at the config register
StepSend ==
    \E p \in Callers :
        /\ frames[p].pc = "send"
        /\ \E w \in {end(writeByte(writeByte(begin(World), DS2482_COMMAND_WRITECONFIG),
                                   ConfigFrame(frames[p].arg)))} :
              /\ chip' = w.chip
              /\ frames' = Selected(p, DS2482_POINTER_CONFIG, "check", w.chip.rp)
        /\ UNCHANGED <<mError, events, op, ret, last, calls>>
        /\ StepKeeps

\* writeConfig: the readByte of the read-back, its test, and the return
StepCheck ==
    \E p \in Callers :
        /\ frames[p].pc = "check"
        /\ \E w \in {writeConfigCheck(readByte(World), frames[p].arg)} :
              /\ chip' = w.chip
              /\ mError' = w.mError
              /\ events' = w.events
              /\ last' = w.last
        /\ frames' = [frames EXCEPT ![p].pc = "done", ![p].got = chip.rp]
        /\ op' = [name |-> "writeConfig", arg |-> <<frames[p].arg>>]
        /\ ret' = 0
        /\ UNCHANGED calls
        /\ StepKeeps

(***************************************************************************)
(* The environment: the caller can find the chip busy when it starts, and  *)
(* devices can be put on the line or taken off it.                         *)
(***************************************************************************)
Stall ==
    /\ op.name = "OneWire"
    /\ chip.busy = 0
    /\ \E n \in Stalls : chip' = [chip EXCEPT !.busy = n]
    /\ enum' = FALSE
    /\ UNCHANGED <<mError, events, searchAddress, searchLastDiscrepancy, searchLastDeviceFlag,
                   bus, fault, lat, op, ret, address, log, nTx, nRd, polled,
                   statuses, busyTx, last, found, calls, buffer, frames>>

\* the other bits of the status a chip that stays busy for good shows:
\* none, a presence pulse, a presence pulse and both read slots of a triplet 1
HangStatus ==
    {0, DS2482_STATUS_PPD,
     DS2482_STATUS_PPD + DS2482_STATUS_SBR + DS2482_STATUS_TSB}

\* before the caller's first call the chip hangs: from then on every read of
\* its status shows BUSY
Hang ==
    /\ op.name = "OneWire"
    /\ chip.busy = 0
    /\ \E st \in HangStatus :
          chip' = [chip EXCEPT !.busy = Stuck, !.status = st, !.next = st]
    /\ enum' = FALSE
    /\ UNCHANGED <<mError, events, searchAddress, searchLastDiscrepancy, searchLastDeviceFlag,
                   bus, fault, lat, op, ret, address, log, nTx, nRd, polled,
                   statuses, busyTx, last, found, calls, buffer, frames>>

\* the lines of the model that can change: empty, one device, two devices that
\* differ in ROM bit 63
MainBuses ==
    { {},
      {Rom(40, {})},
      {Rom(40, {}), Rom(40, {63})} }

Plug ==
    /\ calls > 0
    /\ bus \in MainBuses
    /\ \E b \in MainBuses \ {bus} : bus' = b
    /\ enum' = FALSE
    /\ UNCHANGED <<mError, events, searchAddress, searchLastDiscrepancy, searchLastDeviceFlag,
                   chip, fault, lat, op, ret, address, log, nTx, nRd, polled,
                   statuses, busyTx, last, found, calls, buffer, frames>>

\* the lines of the model on which devices differ in ROM bit 0: any of three
\* devices, two of family 0x28 that differ in bit 63 and one of family 0x29
PlugBuses ==
    {b \in SUBSET {Rom(40, {}), Rom(40, {63}), Rom(41, {})} : b # {}}

\* between two calls devices are put on such a line or taken off it
Replug ==
    /\ calls > 0
    /\ bus \in PlugBuses
    /\ \E b \in PlugBuses \ {bus} : bus' = b
    /\ enum' = FALSE
    /\ UNCHANGED <<mError, events, searchAddress, searchLastDiscrepancy, searchLastDeviceFlag,
                   chip, fault, lat, op, ret, address, log, nTx, nRd, polled,
                   statuses, busyTx, last, found, calls, buffer, frames>>

\* the chip after power-on
PowerOnChip ==
    [cfg |-> 0, rp |-> DS2482_POINTER_STATUS, status |-> 0, next |-> 0, busy |-> 0,
     data |-> 0, mode |-> "idle", active |-> {}, pos |-> 0]

\* the constructors set mAddress and mError only: the three search members
\* start with whatever the object's storage held
Uninitialised ==
    { [d |-> 0, f |-> 0, a |-> ZeroAddress],
      [d |-> 0, f |-> 1, a |-> ZeroAddress],
      [d |-> 200, f |-> 0, a |-> [i \in 0..7 |-> 165]] }

Faults == {"none", "tSI", "low"}

\* OneWire::OneWire, both constructors
Constructed ==
    /\ frames = [p \in Callers |-> IdleFrame]
    /\ mError = 0
    /\ events = {}
    /\ \E u \in Uninitialised :
          /\ searchLastDiscrepancy = u.d
          /\ searchLastDeviceFlag = u.f
          /\ searchAddress = u.a
    /\ chip = PowerOnChip
    /\ op = [name |-> "OneWire", arg |-> <<>>]
    /\ ret = 0
    /\ address = ZeroAddress
    /\ log = <<>>
    /\ nTx = 0
    /\ nRd = 0
    /\ polled = <<>>
    /\ statuses = <<>>
    /\ busyTx = <<>>
    /\ last = -1
    /\ found = <<>>
    /\ enum = FALSE

(***************************************************************************)
(* Spec: the bus and search operations, on a line whose devices come and   *)
(* go and that may be shorted during a reset.                              *)
(***************************************************************************)
Init ==
    /\ Constructed
    /\ buffer = <<>>
    /\ bus \in MainBuses
    /\ fault \in Faults
    /\ lat \in {0, MaxLatency}
    /\ calls = MaxCalls

Next ==
    \/ GetError \/ ReadStatus \/ WireReset \/ WireSkip \/ WireSelect
    \/ WireResetSearch \/ WireSearch \/ Plug

Spec == Init /\ [][Next]_vars

(***************************************************************************)
(* SpecConfig: the config register operations, on a chip that may be kept  *)
(* busy.                                                                   *)
(***************************************************************************)
InitConfig ==
    /\ Constructed
    /\ buffer = <<>>
    /\ searchLastDiscrepancy = 0
    /\ searchLastDeviceFlag = 0
    /\ bus = {}
    /\ fault = "none"
    /\ lat = 0
    /\ calls = MaxCalls

NextConfig ==
    \/ ReadConfig \/ WriteConfig \/ SetStrongPullup \/ ClearStrongPullup
    \/ GetError \/ Stall

SpecConfig == InitConfig /\ [][NextConfig]_vars

(***************************************************************************)
(* SpecBusy: a chip that stays busy, for a while or for good.              *)
(***************************************************************************)
InitBusy ==
    /\ Constructed
    /\ buffer = <<>>
    /\ searchLastDeviceFlag = 0
    /\ bus \in {{}, {Rom(40, {})}}
    /\ fault \in {"none", "tSI"}
    /\ lat = 0
    /\ calls = MaxCalls

NextBusy ==
    \/ Stall \/ WaitOnBusy \/ DeviceReset \/ WireReset \/ GetError

SpecBusy == InitBusy /\ [][NextBusy]_vars

(***************************************************************************)
(* SpecIO: the register reads and the byte and bit operations.             *)
(***************************************************************************)
InitIO ==
    /\ Constructed
    /\ buffer = <<>>
    /\ searchLastDeviceFlag = 0
    /\ bus \in {{}, {Rom(40, {})}}
    /\ fault = "none"
    /\ lat \in {0, MaxLatency}
    /\ calls = MaxCalls

NextIO ==
    \/ CheckPresence \/ SetReadPointer \/ ReadStatus \/ ReadData \/ ReadConfig
    \/ DeviceReset \/ WireReset \/ WireWriteByte \/ WireReadByte \/ WireWriteBit
    \/ WireReadBit \/ WireSkip \/ WireSelect

SpecIO == InitIO /\ [][NextIO]_vars

(***************************************************************************)
(* SpecSearch: enumerating the devices of a line that does not change,     *)
(* through a chip that answers in time.                                    *)
(***************************************************************************)
StaticBuses == {b \in SUBSET Roms : Cardinality(b) >= 1 /\ Cardinality(b) <= MaxDevices}

InitSearch ==
    /\ Constructed
    /\ buffer = <<>>
    /\ bus \in StaticBuses
    /\ fault = "none"
    /\ lat \in {0, MaxLatency}
    /\ calls = MaxDevices + 2

NextSearch == WireResetSearch \/ WireSearch

SpecSearch == InitSearch /\ [][NextSearch]_vars

(***************************************************************************)
(* SpecPlug: searches that start from the state resetSearch leaves, on a   *)
(* line whose devices come and go between the calls.                       *)
(***************************************************************************)
InitPlug ==
    /\ Constructed
    /\ searchLastDiscrepancy = 0
    /\ searchLastDeviceFlag = 0
    /\ buffer = <<>>
    /\ bus \in PlugBuses
    /\ fault = "none"
    /\ lat = 0
    /\ calls = MaxDevices

NextPlug == WireResetSearch \/ WireSearch \/ Replug

SpecPlug == InitPlug /\ [][NextPlug]_vars

(***************************************************************************)
(* SpecCrc: crc8 applied to the caller's bytes.  The buffers are the empty *)
(* one, every single byte, three 7-byte ROM bodies, and each of these      *)
(* followed by every byte.  crc8 keeps nothing between calls: the caller   *)
(* makes one call on its buffer.                                           *)
(***************************************************************************)
CrcBytes == 0..255
CrcPrefixes ==
    {<<>>} \cup {<<a>> : a \in CrcBytes}
           \cup { <<40, 0, 0, 0, 0, 0, 0>>,
                  <<17, 34, 51, 68, 85, 102, 119>>,
                  <<2, 28, 184, 1, 0, 0, 0>> }
CrcInputs == CrcPrefixes \cup {Append(p, x) : p \in CrcPrefixes, x \in CrcBytes}

InitCrc ==
    /\ Constructed
    /\ searchLastDiscrepancy = 0
    /\ searchLastDeviceFlag = 0
    /\ buffer \in CrcInputs
    /\ bus = {}
    /\ fault = "none"
    /\ lat = 0
    /\ calls = 1

NextCrc == Crc8 \/ Crc8Bitwise

SpecCrc == InitCrc /\ [][NextCrc]_vars

(***************************************************************************)
(* SpecAll: one call of any operation of the object, on a chip that        *)
(* answers at once or that hangs before the call.                          *)
(***************************************************************************)
InitAll ==
    /\ Constructed
    /\ searchLastDeviceFlag = 0
    /\ buffer = <<>>
    /\ bus \in {{}, {Rom(40, {})}}
    /\ fault = "none"
    /\ lat = 0
    /\ calls = 1

NextAll ==
    \/ Hang
    \/ GetError \/ CheckPresence \/ DeviceReset \/ SetReadPointer \/ ReadStatus
    \/ ReadData \/ ReadConfig \/ WaitOnBusy \/ WriteConfig \/ SetStrongPullup
    \/ ClearStrongPullup \/ WireReset \/ WireWriteByte \/ WireReadByte
    \/ WireWriteBit \/ WireReadBit \/ WireSkip \/ WireSelect \/ WireResetSearch
    \/ WireSearch

SpecAll == InitAll /\ [][NextAll]_vars

(***************************************************************************)
(* SpecPair: two calls in a row of any operations, on a chip that each     *)
(* 1-Wire command keeps busy for one status poll or for one poll less than *)
(* waitOnBusy makes.                                                       *)
(***************************************************************************)
InitPair ==
    /\ Constructed
    /\ searchLastDiscrepancy = 0
    /\ searchLastDeviceFlag = 0
    /\ buffer = <<>>
    /\ bus = {Rom(40, {})}
    /\ fault = "none"
    /\ lat \in {MaxLatency, PollBudget - 1}
    /\ calls = 2

NextPair ==
    \/ GetError \/ CheckPresence \/ DeviceReset \/ SetReadPointer \/ ReadStatus
    \/ ReadData \/ ReadConfig \/ WaitOnBusy \/ WriteConfig \/ SetStrongPullup
    \/ ClearStrongPullup \/ WireReset \/ WireWriteByte \/ WireReadByte
    \/ WireWriteBit \/ WireReadBit \/ WireSkip \/ WireSelect \/ WireResetSearch
    \/ WireSearch

SpecPair == InitPair /\ [][NextPair]_vars

(***************************************************************************)
(* SpecError: calls in a row of any operations, on a line that may be      *)
(* shorted and through a chip that the caller may find busy.               *)
(***************************************************************************)
InitError ==
    /\ Constructed
    /\ searchLastDiscrepancy = 0
    /\ searchLastDeviceFlag = 0
    /\ buffer = <<>>
    /\ bus = {Rom(40, {})}
    /\ fault \in {"none", "tSI"}
    /\ lat = 0
    /\ calls = MaxCalls

NextError ==
    \/ Stall
    \/ GetError \/ CheckPresence \/ DeviceReset \/ SetReadPointer \/ ReadStatus
    \/ ReadData \/ ReadConfig \/ WaitOnBusy \/ WriteConfig \/ SetStrongPullup
    \/ ClearStrongPullup \/ WireReset \/ WireWriteByte \/ WireReadByte
    \/ WireWriteBit \/ WireReadBit \/ WireSkip \/ WireSelect \/ WireResetSearch
    \/ WireSearch

SpecError == InitError /\ [][NextError]_vars

(***************************************************************************)
(* SpecLoop: the caller's enumeration loop on a line that does not change: *)
(*     resetSearch(); while (search(address)) { }                          *)
(* The caller is sequential code: each call it has reached is made, which  *)
(* is the weak fairness of the two calls.  wireSearch() ends on every      *)
(* state (C16), so the search of the loop is enabled whenever the caller   *)
(* stands before it, and LoopSearchCall states its steps as the caller     *)
(* sees them: a call of wireSearch has been made.                          *)
(***************************************************************************)
LoopLeft == op.name = "wireSearch" /\ ret = 0

LoopReset ==
    /\ op.name = "OneWire"
    /\ WireResetSearch

LoopSearch ==
    /\ enum
    /\ ~LoopLeft
    /\ WireSearch

LoopSearchCall ==
    /\ enum
    /\ ~LoopLeft
    /\ calls > 0
    /\ calls' = calls - 1
    /\ op' = [name |-> "wireSearch", arg |-> <<>>]

InitLoop ==
    /\ Constructed
    /\ buffer = <<>>
    /\ bus \in StaticBuses
    /\ fault = "none"
    /\ lat \in {0, MaxLatency}
    /\ calls = MaxDevices + 2

NextLoop == LoopReset \/ LoopSearch

SpecLoop ==
    InitLoop /\ [][NextLoop]_vars /\ WF_vars(LoopReset) /\ WF_calls(LoopSearchCall)

(***************************************************************************)
(* SpecCut: searches on a line whose devices may lose contact while a      *)
(* search is under way.                                                    *)
(***************************************************************************)
InitCut ==
    /\ Constructed
    /\ buffer = <<>>
    /\ bus \in StaticBuses
    /\ fault = "none"
    /\ lat = 0
    /\ calls = MaxDevices

NextCut == WireResetSearch \/ WireSearch \/ WireSearchCut

SpecCut == InitCut /\ [][NextCut]_vars

(***************************************************************************)
(* SpecShared: two callers read registers and write the config register    *)
(* through the one object, their I2C transactions in any order.            *)
(***************************************************************************)
InitShared ==
    /\ Constructed
    /\ searchLastDiscrepancy = 0
    /\ searchLastDeviceFlag = 0
    /\ buffer = <<>>
    /\ bus = {}
    /\ fault = "none"
    /\ lat = 0
    /\ calls = MaxCalls

NextShared ==
    \/ CallRead \/ CallWriteConfig
    \/ StepSelect \/ StepRead \/ StepPoll \/ StepStatus \/ StepSend \/ StepCheck

SpecShared == InitShared /\ [][NextShared]_vars

(***************************************************************************)
(* The properties.                                                         *)
(***************************************************************************)
SearchState == <<searchAddress, searchLastDiscrepancy, searchLastDeviceFlag>>

\* this step is a call of `name`
Called(name) == calls' = calls - 1 /\ op'.name = name

Range(s) == {s[i] : i \in 1..Len(s)}
Distinct(s) == Cardinality(Range(s)) = Len(s)
HasFlag(e, flag) == And(e, flag) # 0
ErrorFlags == {DS2482_ERROR_TIMEOUT, DS2482_ERROR_SHORT, DS2482_ERROR_CONFIG}

\* C1: on a line of N >= 1 devices that does not change, resetSearch followed
\* by repeated searches gives N successes before the first failure, the
\* addresses returned are distinct and are exactly the ROMs on the line, and
\* the N-th success sets searchLastDeviceFlag.
C1_EnumeratesEveryDevice ==
    enum /\ op.name = "wireSearch" =>
        /\ Distinct(found)
        /\ Range(found) \subseteq bus
        /\ (ret = 0 => Range(found) = bus)
        /\ (Len(found) = Cardinality(bus) => searchLastDeviceFlag = 1)

\* C2: on a line of exactly one device, whatever its ROM, the first search
\* after resetSearch returns 1 with the device's address and sets
\* searchLastDeviceFlag, and the search after it returns 0.
C2_SingleDevice ==
    [][\A r \in bus : bus = {r} /\ enum =>
          /\ (op.name = "wireResetSearch" /\ Called("wireSearch")
                => ret' = 1 /\ address' = r /\ searchLastDeviceFlag' = 1)
          /\ (op.name = "wireSearch" /\ ret = 1 /\ found = <<r>> /\ Called("wireSearch")
                => ret' = 0 /\ found' = found)]_vars

\* the second search on the line of the one device with every serial bit of
\* the model set has returned 0
C2_SecondSearchFails ==
    /\ bus = {Rom(41, SerialBits)}
    /\ enum
    /\ op.name = "wireSearch"
    /\ ret = 0
    /\ found = <<Rom(41, SerialBits)>>
    /\ searchLastDeviceFlag = 1

\* C3: on an empty line (the reset leaves PPD clear) wireReset returns 0, and
\* wireSearch returns 0 and leaves searchAddress, searchLastDiscrepancy and
\* searchLastDeviceFlag as they were, so the flag is not set by it.
C3_EmptyLine ==
    [][bus = {} /\ fault # "low" =>
          /\ (Called("wireReset") => ret' = 0 /\ ~HasFlag(last', DS2482_STATUS_PPD))
          /\ (Called("wireSearch") => ret' = 0 /\ UNCHANGED SearchState)]_vars

\* a search on an empty line ran the reset cycle, saw no presence pulse and
\* returned 0 with the flag clear
C3_SearchFoundNothing ==
    /\ bus = {}
    /\ fault # "low"
    /\ op.name = "wireSearch"
    /\ nTx > 0
    /\ ~HasFlag(last, DS2482_STATUS_PPD)
    /\ ret = 0
    /\ searchLastDeviceFlag = 0

\* C4: once searchLastDeviceFlag is set, a search returns 0 without any I2C
\* transaction and leaves the search state as it was, and the flag stays set
\* through every step that is not a resetSearch.
C4_FinishedSearch ==
    [][searchLastDeviceFlag # 0 =>
          /\ (Called("wireSearch")
                => ret' = 0 /\ nTx' = 0 /\ nRd' = 0 /\ log' = <<>>
                   /\ UNCHANGED SearchState)
          /\ (~Called("wireResetSearch") => UNCHANGED searchLastDeviceFlag)]_vars

\* a search found the last device, and the search after it was refused
C4_SearchRefused ==
    /\ op.name = "wireSearch"
    /\ Len(found) = 1
    /\ searchLastDeviceFlag = 1
    /\ ret = 0
    /\ nTx = 0

\* C5: the error flags are sticky and accumulate: a flag that is set stays
\* set through every later call, so Timeout followed by Short leaves both.
C5_ErrorFlagsSticky ==
    [][\A e \in ErrorFlags : HasFlag(mError, e) => HasFlag(mError', e)]_vars

\* C6: the I2C output of deviceReset is one write transaction holding the
\* command byte 0xF0, and no 1-Wire command.
C6_DeviceResetOutput ==
    [][Called("deviceReset")
          => nTx' = 1 /\ nRd' = 0 /\ log' = << <<DS2482_COMMAND_RESET>> >>]_vars

\* C7: deviceReset leaves the error flags and the search state as they were,
\* also when the chip reports BUSY for ever.
C7_DeviceResetFrame ==
    [][Called("deviceReset") => UNCHANGED mError /\ UNCHANGED SearchState]_vars

\* C8: waitOnBusy, entered with Timeout clear, sets Timeout exactly when all
\* 1000 polls read BUSY; when poll N <= 1000 is the first to read BUSY clear
\* the loop stops at that poll, Timeout stays clear, and in both cases the
\* value returned is the status of the last poll.  A chip busy for b polls
\* reads BUSY clear on poll b + 1.
C8_WaitOnBusy ==
    [][Called("waitOnBusy") /\ ~HasFlag(mError, DS2482_ERROR_TIMEOUT) =>
          /\ ret' = last'
          /\ (HasFlag(mError', DS2482_ERROR_TIMEOUT)
                <=> chip.busy = Stuck \/ chip.busy >= PollBudget)
          /\ (HasFlag(mError', DS2482_ERROR_TIMEOUT)
                => nRd' = PollBudget /\ HasFlag(last', DS2482_STATUS_BUSY))
          /\ (chip.busy >= 0 /\ chip.busy < PollBudget
                => /\ nRd' = chip.busy + 1
                   /\ ~HasFlag(last', DS2482_STATUS_BUSY)
                   /\ UNCHANGED mError)]_vars

\* waitOnBusy read BUSY clear on its last permitted poll and set no error
C8_ClearOnLastPoll ==
    /\ op.name = "waitOnBusy"
    /\ nRd = PollBudget
    /\ ~HasFlag(last, DS2482_STATUS_BUSY)
    /\ mError = 0

C10_WriteConfig ==
    [][Called("writeConfig") =>
          LET c == op'.arg[1]
          IN /\ log' = << <<DS2482_COMMAND_WRITECONFIG, c + 16 * (15 - c)>> >>
             /\ (chip.busy >= 0 /\ chip.busy < PollBudget
                   => /\ last' = c
                      /\ UNCHANGED <<mError, events>>
                      /\ readConfig(World)'.ret = c)
             /\ (last' # c => HasFlag(mError', DS2482_ERROR_CONFIG))]_vars

\* readConfig returned the value 1010b that only writeConfig(10) stores, and
\* no error is set
C10_ReadBack ==
    /\ op.name = "readConfig"
    /\ ret = 10
    /\ chip.cfg = 10
    /\ mError = 0

\* the byte that carries config value c to the config register
FrameOf(c) == c + 16 * (15 - c)
\* config value v with the SPU bit set, and with it cleared
WithSPU(v) == v - And(v, DS2482_CONFIG_SPU) + DS2482_CONFIG_SPU
WithoutSPU(v) == v - And(v, DS2482_CONFIG_SPU)

\* C11: setStrongPullup and clearStrongPullup are read-modify-write on the SPU
\* bit only: each writes to the config register the value it has just read
\* with SPU set (respectively cleared) and APU and 1WS exactly as read.
C11_StrongPullupReadModifyWrite ==
    [][/\ (Called("setStrongPullup")
             => log' = << <<DS2482_COMMAND_WRITECONFIG,
                            FrameOf(WithSPU(readConfig(World).ret))>> >>)
       /\ (Called("clearStrongPullup")
             => log' = << <<DS2482_COMMAND_WRITECONFIG,
                            FrameOf(WithoutSPU(readConfig(World).ret))>> >>)]_vars

\* tx is a write-config transaction, and the value it carries has SPU set
IsWriteConfig(tx) == Len(tx) = 2 /\ tx[1] = DS2482_COMMAND_WRITECONFIG
SetsSPU(tx) == IsWriteConfig(tx) /\ HasFlag(tx[2], DS2482_CONFIG_SPU)
IsResetWire(tx) == Len(tx) = 1 /\ tx[1] = DS2482_COMMAND_RESETWIRE

\* C12: every wireReset call, whatever the config register held, transmits
\* the reset-wire command, and before it a write-config command carrying
\* SPU = 0 with no command that sets SPU between the two.
C12_ResetAfterClearingSPU ==
    [][Called("wireReset") =>
          /\ \E j \in 1..Len(log') : IsResetWire(log'[j])
          /\ \A j \in 1..Len(log') :
                IsResetWire(log'[j]) =>
                   \E i \in 1..(j - 1) :
                      /\ IsWriteConfig(log'[i])
                      /\ ~SetsSPU(log'[i])
                      /\ \A k \in (i + 1)..(j - 1) : ~SetsSPU(log'[k])]_vars

\* a wireReset made as the second call sent the config value 0 and then
\* the reset-wire command, and left the config register without SPU
C12_ResetSent ==
    /\ op.name = "wireReset"
    /\ calls = MaxCalls - 2
    /\ log = << <<DS2482_COMMAND_WRITECONFIG, FrameOf(0)>>, <<DS2482_COMMAND_RESETWIRE>> >>
    /\ ~HasFlag(chip.cfg, DS2482_CONFIG_SPU)

\* C13: wireSelect(rom) sends exactly nine 1-Wire write-byte commands and no
\* other command: the first carries 0x55 and the next eight carry rom[0] to
\* rom[7] in that order; each is sent after a waitOnBusy of its own, that is
\* after at least one status read made since the command before it, and all
\* other I2C traffic of the call is those status reads.
C13_SelectSendsNineBytes ==
    [][Called("wireSelect") =>
          /\ Len(log') = 1 + RomBytes
          /\ log'[1] = <<DS2482_COMMAND_WRITEBYTE, WIRE_COMMAND_SELECT>>
          /\ \A i \in 0..(RomBytes - 1) :
                log'[i + 2] = <<DS2482_COMMAND_WRITEBYTE, op'.arg[i + 1]>>
          /\ polled'[1] >= 1
          /\ \A k \in 1..RomBytes : polled'[k + 1] > polled'[k]
          /\ nRd' = polled'[1 + RomBytes]
          /\ nTx' = 1 + RomBytes + nRd']_vars

\* a wireSelect of an address whose bytes all differ, on a chip that each
\* byte keeps busy for a while: some waits took more than one status read
C13_SelectedDistinctBytes ==
    /\ op.name = "wireSelect"
    /\ Distinct(op.arg)
    /\ Len(log) = 1 + RomBytes
    /\ nRd > 1 + RomBytes

\* C14: the crc8 of the build with the table and the bit-serial crc8 (shift
\* right, feedback 0x8C, start 0) agree: for every running crc c and byte b
\* the table entry at c XOR b is the eight-step bit-serial update of c with
\* b, so both builds return the same crc for the same bytes.
C14_TableAgreesWithBitSerial ==
    /\ \A k \in 1..Len(buffer) :
          crc8Lookup(crc8(buffer, k - 1), buffer[k])
             = crc8Bits(crc8(buffer, k - 1), buffer[k], 8)
    /\ op.name = "crc8" => ret = crc8Bitwise(buffer, Len(buffer))
    /\ op.name = "crc8 bitwise" => ret = crc8(buffer, Len(buffer))

\* the bit-serial build was applied to two bytes of which the first leaves
\* the running crc 0xFF, and the second is 0xAA
C14_BothBytesMix ==
    /\ op.name = "crc8 bitwise"
    /\ Len(buffer) = 2
    /\ crc8(buffer, 1) = 255
    /\ buffer[2] = 170
    /\ ret = crc8Lookup(255, 170)

\* C15: crc8 over a buffer is 0 exactly when the last byte of the buffer is
\* the crc8 of the bytes before it; so crc8 over 8 bytes is 0 exactly when
\* the 8th byte is the crc8 of the first 7, and a buffer d followed by
\* crc8(d) has crc8 0.
C15_CrcSelfConsistent ==
    (op.name \in {"crc8", "crc8 bitwise"} /\ Len(buffer) >= 1)
       => (ret = 0 <=> buffer[Len(buffer)] = crc8(buffer, Len(buffer) - 1))

\* crc8 over the 8 bytes of the ROM address 02 1C B8 01 00 00 00 A2 returned 0
C15_ValidRom ==
    /\ op.name = "crc8"
    /\ buffer = <<2, 28, 184, 1, 0, 0, 0, 162>>
    /\ buffer[RomBytes] = crc8(buffer, RomBytes - 1)
    /\ ret = 0

\* the triplet commands among the writes of the last call
Triplets == {j \in 1..Len(log) : Len(log[j]) > 0 /\ log[j][1] = DS2482_COMMAND_TRIPLET}

\* C16: every operation returns after a bounded number of I2C transactions,
\* also on a chip that shows BUSY at every status read: a waitOnBusy makes at
\* least 1 and at most 1000 status reads, a search sends at most 64
\* triplets, and no operation makes more reads than the 6 waits with which
\* a search begins, the 2 waits of each of 64 triplets and 2 register reads
\* come to, nor more writes than one per read, one per command and one more.
C16_BoundedTransactions ==
    [][calls' = calls - 1 =>
          /\ (op'.name = "waitOnBusy" => nRd' >= 1 /\ nRd' <= PollBudget)
          /\ Cardinality(Triplets') <= RomBits
          /\ Len(log') <= 3 + RomBits
          /\ nRd' <= (6 + 2 * RomBits) * PollBudget + 2
          /\ nTx' <= nRd' + Len(log') + 1]_vars

\* a search on a chip that hangs with a presence pulse in its status sent
\* all 64 triplets and spent the whole poll budget in each of its waits
C16_SearchOnHungChip ==
    /\ op.name = "wireSearch"
    /\ chip.busy = Stuck
    /\ Cardinality(Triplets) = RomBits
    /\ nRd = (6 + 2 * RomBits) * PollBudget + 2

\* C17: the object is not safe to share: with the I2C transactions of two
\* calls in any order, a read of a register returns the register that the
\* latest selecting transaction of either caller named, so a read whose
\* caller selected one register returns another one whenever a selecting
\* transaction of the other caller came in between.
C17_ReadFollowsLatestSelection ==
    \A p \in Callers :
        frames[p].got # NoRegister =>
            frames[p].got = (IF frames[p].seen = NoRegister THEN frames[p].sel
                             ELSE frames[p].seen)

\* the read-back of a writeConfig returned the status register, after a
\* readStatus of the other caller: the config register holds the value
\* written and the call reported a mismatch
C17_ReadBackReturnedStatus ==
    \E p \in Callers :
        /\ frames[p].name = "writeConfig"
        /\ frames[p].pc = "done"
        /\ frames[p].sel = DS2482_POINTER_CONFIG
        /\ frames[p].got = DS2482_POINTER_STATUS
        /\ chip.cfg = frames[p].arg
        /\ op.name = "writeConfig"
        /\ HasFlag(mError, DS2482_ERROR_CONFIG)

\* the triplet transactions among the writes of a call, in the order sent
IsTriplet(tx) == Len(tx) = 2 /\ tx[1] = DS2482_COMMAND_TRIPLET
TripletsSent(l) == SelectSeq(l, IsTriplet)

\* the direction the search is to request at bit i, from the members as they
\* were when the search began; 0 in searchLastDiscrepancy is "none"
RequestedDirection(i) ==
    IF searchLastDiscrepancy = 0 THEN 0
    ELSE IF i < searchLastDiscrepancy THEN RomBit(searchAddress, i)
    ELSE IF i = searchLastDiscrepancy THEN 1
    ELSE 0

\* C18: the direction a search requests in the triplet of bit i is the bit
\* recorded in searchAddress when i is below lastDiscrepancy, 1 when i is
\* lastDiscrepancy, and 0 above it; after resetSearch, when lastDiscrepancy
\* is none, the search requests 0 at every bit, bit 0 included.
C18_RequestedDirections ==
    [][Called("wireSearch") =>
          \A k \in 1..Len(TripletsSent(log')) :
              TripletsSent(log')[k][2] = 128 * RequestedDirection(k - 1)]_vars

\* the bits of a search at which the triplet read 0 in both slots, and those
\* of them at which the direction taken was 0; bit i is the triplet i + 1
BothZero(st) == ~HasFlag(st, DS2482_STATUS_SBR) /\ ~HasFlag(st, DS2482_STATUS_TSB)
BothOne(st) == HasFlag(st, DS2482_STATUS_SBR) /\ HasFlag(st, DS2482_STATUS_TSB)
ZeroBits(sts) == {i \in 0..(Len(sts) - 1) : BothZero(sts[i + 1])}
ZeroTakenBits(sts) ==
    {i \in ZeroBits(sts) : ~HasFlag(sts[i + 1], DS2482_STATUS_DIR)}
\* the highest bit of a set of bits, 0 for none
Highest(S) == IF S = {} THEN 0 ELSE CHOOSE i \in S : \A j \in S : j <= i

\* C19 as stated: after a search that succeeds, lastDiscrepancy is the
\* highest bit at which the triplet status had SBR and TSB both clear,
\* whatever DIR was, and none (0) when there is no such bit.
C19_LastDiscrepancyAnyDirection ==
    [][(Called("wireSearch") /\ ret' = 1) =>
          searchLastDiscrepancy' = Highest(ZeroBits(statuses'))]_vars

\* C19 amended: after a search that succeeds, lastDiscrepancy is the highest
\* bit at which the triplet status had SBR, TSB and DIR all clear, and 0
\* when there is no such bit.
C19_LastDiscrepancyZeroTaken ==
    [][(Called("wireSearch") /\ ret' = 1) =>
          searchLastDiscrepancy' = Highest(ZeroTakenBits(statuses'))]_vars

\* a search succeeded with both slots 0 at two bits: it took direction 1 at
\* the higher one and 0 at the lower one, which is the one recorded
C19_HigherBitTakenOne ==
    /\ op.name = "wireSearch"
    /\ ret = 1
    /\ searchLastDiscrepancy # 0
    /\ searchLastDiscrepancy = Highest(ZeroTakenBits(statuses))
    /\ Highest(ZeroBits(statuses)) > searchLastDiscrepancy

DirBit(st) == IF HasFlag(st, DS2482_STATUS_DIR) THEN 1 ELSE 0

\* C21: a search that succeeds sends exactly 64 triplets, one for each of
\* the bits 0..63 in increasing order, and bit i of the address it copies to
\* the caller (bit i mod 8 of byte i div 8) is the DIR bit of the status
\* read after triplet i; a search that returns 0 leaves the caller's buffer
\* as it was.
C21_AddressIsDirBits ==
    [][Called("wireSearch") =>
          /\ ret' = 1 =>
                /\ Len(TripletsSent(log')) = RomBits
                /\ Len(statuses') = RomBits
                /\ \A i \in 0..(RomBits - 1) :
                      RomBit(address', i) = DirBit(statuses'[i + 1])
          /\ ret' # 1 => address' = address]_vars

\* a search succeeded and copied out an address with 1 bits and 0 bits
C21_AddressCopied ==
    /\ op.name = "wireSearch"
    /\ ret = 1
    /\ Len(statuses) = RomBits
    /\ address \in bus
    /\ \E i \in 0..(RomBits - 1) : RomBit(address, i) = 1 /\ DirBit(statuses[i + 1]) = 1
    /\ \E i \in 0..(RomBits - 1) : RomBit(address, i) = 0 /\ DirBit(statuses[i + 1]) = 0

\* C22: in every state reached from resetSearch by searches, lastDeviceFlag
\* set implies lastDiscrepancy none (0); and a search that succeeds leaves
\* lastDeviceFlag set exactly when it recorded no discrepancy, that is when
\* at no bit the triplet status had SBR, TSB and DIR all clear.
C22_FlagMeansNoDiscrepancy ==
    [][/\ searchLastDeviceFlag' # 0 => searchLastDiscrepancy' = 0
       /\ (Called("wireSearch") /\ ret' = 1)
             => (searchLastDeviceFlag' # 0 <=> ZeroTakenBits(statuses') = {})]_vars

\* C23: on a chip that each 1-Wire command keeps busy for fewer than 1000
\* status polls, no call sends a command other than set-read-pointer while
\* the chip is busy: wireWriteByte and wireWriteBit return without waiting,
\* and the wait at the start of the next operation covers for it.
C23_NoCommandWhileBusy == busyTx = <<>>

\* a wireSkip that followed a call which left the chip busy: its wait took
\* more than one status read, it sent its byte to a chip no longer busy, and
\* it left the chip busy in its turn
C23_WaitCoveredEarlierWrite ==
    /\ op.name = "wireSkip"
    /\ calls = 0
    /\ polled[1] > 1
    /\ busyTx = <<>>
    /\ IsBusy(chip)
\* C24: getError() is 0 exactly when the driver has met no error condition
\* (a waitOnBusy timeout, a short seen by wireReset, a writeConfig read-back
\* mismatch) since construction, and no call turns a non-zero error value
\* back to 0.
C24_ErrorZeroIffNoEvent ==
    /\ [](mError = 0 <=> events = {})
    /\ [][mError # 0 => mError' # 0]_vars
    /\ [][Called("getError") => ret' = mError' /\ (ret' = 0 <=> events' = {})]_vars

\* a writeConfig whose read-back matched, after a wireReset that saw a short:
\* the error value is still the one of the short
C24_ShortOutlivesGoodConfig ==
    /\ op.name = "writeConfig"
    /\ last = op.arg[1]
    /\ events = {"short"}
    /\ mError = DS2482_ERROR_SHORT


\* C25: on a line that does not change, the address a successful search()
\* returns is the ROM of a device on the line, whatever state the search
\* started from: it never mixes bits of different devices.
C25_ReturnedAddressOnBus ==
    op.name = "wireSearch" /\ ret = 1 => address \in bus

\* a successful search on a line of MaxDevices devices that met a discrepancy,
\* started from search members no resetSearch had set
C25_DiscrepancyFromUnsetState ==
    /\ op.name = "wireSearch"
    /\ ret = 1
    /\ ~enum
    /\ Cardinality(bus) = MaxDevices
    /\ ZeroTakenBits(statuses) # {}


\* C26: on a line that does not change, the successful searches between one
\* resetSearch() and the next return addresses that differ from one another.
C26_NoAddressTwice ==
    enum => Distinct(found)

\* MaxDevices searches in a row after a resetSearch have succeeded
C26_ThreeAddresses ==
    /\ enum
    /\ op.name = "wireSearch"
    /\ ret = 1
    /\ Len(found) = MaxDevices


\* C27: on a line of N >= 1 devices that does not change, the loop
\* resetSearch(); while (search()) {} is always left: at most N searches
\* return true, and then searchLastDeviceFlag is set and a search returns
\* false.
C27_LoopIsLeft ==
    /\ [](Len(found) <= Cardinality(bus))
    /\ [](LoopLeft => searchLastDeviceFlag = 1)
    /\ <>LoopLeft

\* the loop was left after MaxDevices searches that returned true
C27_LeftAfterEveryDevice ==
    /\ LoopLeft
    /\ enum
    /\ Cardinality(bus) = MaxDevices
    /\ Len(found) = MaxDevices


\* C28: a search that aborts at a bit k > 0, on a triplet status with SBR
\* and TSB both set, leaves searchAddress as it was before the call, as it
\* leaves searchLastDiscrepancy and searchLastDeviceFlag.
C28_AbortKeepsSearchState ==
    [][(/\ Called("wireSearch")
        /\ ret' = 0
        /\ Len(statuses') > 1
        /\ BothOne(statuses'[Len(statuses')]))
          => UNCHANGED SearchState]_vars


\* C29: a newly constructed object is in the state resetSearch leaves
\* (searchLastDiscrepancy 0, searchLastDeviceFlag 0, searchAddress all zero),
\* so a search made before any resetSearch returns what the first search
\* after a resetSearch would, and leaves the same search state.
C29_ConstructedIsReset ==
    /\ [](op.name = "OneWire" => SearchState = <<ZeroAddress, 0, 0>>)
    /\ [][(op.name = "OneWire" /\ Called("wireSearch"))
            => LET first == wireSearch(wireResetSearch(World))
               IN /\ ret' = first.ret
                  /\ address' = first.address
                  /\ SearchState' = <<first.searchAddress, first.searchLastDiscrepancy,
                                      first.searchLastDeviceFlag>>]_vars


\* the calls that drive the 1-Wire line
LineCalls ==
    {"wireReset", "wireSearch", "wireSelect", "wireSkip", "wireWriteByte",
     "wireReadByte", "wireWriteBit", "wireReadBit"}

\* the APU and 1WS bits of a config value
KeptBits(cfg) == And(cfg, DS2482_CONFIG_APU + DS2482_CONFIG_1WS)

\* C30: wireReset, search, wireSelect, wireSkip and the byte and bit reads
\* and writes leave the APU and 1WS bits of the chip's config register as a
\* writeConfig set them: of the config bits they change SPU only.
C30_LineCallsKeepConfig ==
    [][(\E n \in LineCalls : Called(n)) => KeptBits(chip'.cfg) = KeptBits(chip.cfg)]_vars


====
